---- MODULE Spec2Model ----
(***************************************************************************)
(* Model of the e-mail -> spreadsheet -> CSV pipeline:                     *)
(*   batch_process_emails.py   (get_unique_filename, extract_excel_from_eml,*)
(*                              process_sales_excel, process_eml_file, main)*)
(*   extract_excel_from_email.py (extract_excel_from_eml)                   *)
(*   process_excel_sales.py      (process_sales_excel, main)                *)
(*                                                                         *)
(* Text is modelled by its structure.  A date text "dd/mm/yyyy" is the     *)
(* record of its three digit groups; a title cell is a sequence of tokens  *)
(* (date text, dash, white space, other text); a file name is its          *)
(* directory part, stem and extension; an output file name is the sequence *)
(* of the "_"-separated pieces of its stem plus its extension.             *)
(***************************************************************************)
EXTENDS Integers, Sequences, FiniteSets, TLC

\* ------------------------------------------------------------------ bounds
MaxEml == 2        \* .eml files found by one batch run
MaxParts == 2      \* MIME parts yielded by msg.walk() for one container
MaxWrites == 4     \* writes by one run of SpecUnique

\* ------------------------------------------------------------------- dates
Date(d, m, y) == [dd |-> d, mm |-> m, yyyy |-> y]

IsLeap(y) == (y % 4 = 0 /\ y % 100 # 0) \/ y % 400 = 0

DaysIn(m, y) ==
    IF m = 2 THEN (IF IsLeap(y) THEN 29 ELSE 28)
    ELSE IF m \in {4, 6, 9, 11} THEN 30 ELSE 31

\* a strptime that checks the ranges of day and month but not the calendar
strptime_no_calendar(s) ==
    /\ s.yyyy >= 1
    /\ s.mm >= 1 /\ s.mm <= 12
    /\ s.dd >= 1 /\ s.dd <= 31

\* datetime.strptime(s, '%d/%m/%Y') raises ValueError unless s is a real date
strptime_ok(s) ==
    /\ s.yyyy >= 1
    /\ s.mm >= 1 /\ s.mm <= 12
    /\ s.dd >= 1 /\ s.dd <= DaysIn(s.mm, s.yyyy)

\* date.strftime('%Y%m%d'): the eight digits yyyymmdd
strftime(s) == s.yyyy * 10000 + s.mm * 100 + s.dd

\* ------------------------------------------------------------- title cells
NoDate == Date(0, 0, 0)
Txt == [k |-> "text", v |-> NoDate]
Ws == [k |-> "ws", v |-> NoDate]
Dash == [k |-> "dash", v |-> NoDate]
D(d, m, y) == [k |-> "date", v |-> Date(d, m, y)]

\* "Sales Report 01/01/2024 - 07/01/2024"
TitleWeek == <<Txt, Ws, D(1, 1, 2024), Ws, Dash, Ws, D(7, 1, 2024)>>
\* "Q1 Report"
TitleQ1 == <<Txt, Ws, Txt>>
\* "Report 01/02/2023 - 29/02/2023": matches the pattern, 2023 has no 29 Feb
TitleNoLeap == <<Txt, Ws, D(1, 2, 2023), Ws, Dash, Ws, D(29, 2, 2023)>>
\* "32/01/2024 to 01/02/2024-29/02/2024": the first date text is not followed
\* by a dash, the search matches further right
TitleLate == <<D(32, 1, 2024), Ws, Txt, Ws, D(1, 2, 2024), Dash, D(29, 2, 2024)>>

\* workbooks are identified by a number; each has its own title cell and body
Workbooks == 1 .. 4
TitleOf(w) ==
    CASE w = 1 -> TitleWeek
      [] w = 2 -> TitleLate
      [] w = 3 -> TitleQ1
      [] OTHER -> TitleNoLeap

RECURSIVE SkipWs(_, _)
SkipWs(t, i) == IF i <= Len(t) /\ t[i].k = "ws" THEN SkipWs(t, i + 1) ELSE i

\* the pattern (\d{2}/\d{2}/\d{4})\s*-\s*(\d{2}/\d{2}/\d{4}) anchored at token i
MatchAt(t, i) ==
    LET j == SkipWs(t, i + 1)
        e == SkipWs(t, j + 1)
    IN  /\ t[i].k = "date"
        /\ j <= Len(t) /\ t[j].k = "dash"
        /\ e <= Len(t) /\ t[e].k = "date"

GroupsAt(t, i) == <<t[i].v, t[SkipWs(t, SkipWs(t, i + 1) + 1)].v>>

\* re.search: the leftmost match, or <<>> for None
re_search(t) ==
    LET hits == {i \in 1 .. Len(t) : MatchAt(t, i)}
    IN  IF hits = {} THEN <<>>
        ELSE GroupsAt(t, CHOOSE i \in hits : \A h \in hits : i <= h)

\* ------------------------------------------------------------- normalizer
\* openpyxl.load_workbook opens .xlsx files only; a file staged under any
\* other extension raises InvalidFileException
load_workbook_ok(path) == path.ext = ".xlsx"

\* df with the two period columns inserted: the captured texts, and the body
Table(start_date_str, end_date_str, w) ==
    [Period_Start |-> start_date_str, Period_End |-> end_date_str, body |-> w]

\* "sales_<start>_<end>.csv": the pieces of the stem, and the extension
SalesName(start_formatted, end_formatted) ==
    [stem |-> <<"sales", start_formatted, end_formatted>>, ext |-> ".csv"]

\* process_sales_excel(excel_file_path) on a file holding workbook w:
\* [ok |-> FALSE] for a raised exception, else the pair (df, output_filename)
Raised == [ok |-> FALSE, df |-> Table(NoDate, NoDate, 0), output_filename |-> SalesName(0, 0)]

process_sales_excel(path, w) ==
    LET date_match == re_search(TitleOf(w))
    IN  IF ~load_workbook_ok(path) THEN Raised
        ELSE IF date_match = <<>> THEN Raised
        ELSE IF ~strptime_ok(date_match[1]) THEN Raised
        ELSE IF ~strptime_ok(date_match[2]) THEN Raised
        ELSE [ok |-> TRUE,
              df |-> Table(date_match[1], date_match[2], w),
              output_filename |-> SalesName(strftime(date_match[1]), strftime(date_match[2]))]

\* ------------------------------------------------------ get_unique_filename
\* a directory is a function from the names of its files to their content
EmptyDir == [n \in {} |-> 0]
WriteFile(dir, name, content) ==
    [n \in DOMAIN dir \cup {name} |-> IF n = name THEN content ELSE dir[n]]

\* f"{base_name}_{counter}{extension}"
Suffixed(path, counter) == [stem |-> Append(path.stem, counter), ext |-> path.ext]

RECURSIVE ScanUp(_, _, _)
ScanUp(dir, path, counter) ==
    IF Suffixed(path, counter) \notin DOMAIN dir THEN Suffixed(path, counter)
    ELSE ScanUp(dir, path, counter + 1)

\* a get_unique_filename without the early return of lines 17-18
get_unique_filename_no_early_return(dir, path) == ScanUp(dir, path, 1)

get_unique_filename(dir, path) ==
    IF path \notin DOMAIN dir THEN path ELSE ScanUp(dir, path, 1)

\* ---------------------------------------------------------------- e-mails
\* a file name: directory part, stem, extension
Name(d, x) == [dir |-> d, stem |-> "AHEAD Supplier Sales v2.0", ext |-> x]
AheadXlsx == Name("", ".xlsx")

\* the filename parameter of a part: absent, literal, or an encoded word
\* =?charset?b?...?= standing for the text
NoName == [form |-> "none", charset |-> "", text |-> Name("", "")]
Raw(n) == [form |-> "raw", charset |-> "", text |-> n]
Enc(cs, n) == [form |-> "encoded", charset |-> cs, text |-> n]

KnownCharsets == {"utf-8"}

Part(dp, fn, w) == [disp |-> dp, fname |-> fn, payload |-> w]

Parts ==
    {Part("attachment", Raw(AheadXlsx), w) : w \in Workbooks}
    \cup {Part("attachment", fn, 1) :
            fn \in {Enc("utf-8", Name("", ".xls")), Raw(Name("sub", ".xlsx")),
                    Raw(Name("../..", ".xlsx")),
                    Raw(Name("", ".pdf")), Raw(Name("", ".XLSX")),
                    Enc("koi-9", AheadXlsx), NoName}}
    \cup {Part("inline", Raw(AheadXlsx), 1)}

RECURSIVE SeqsUpTo(_, _)
SeqsUpTo(S, n) ==
    IF n = 0 THEN {<<>>}
    ELSE LET shorter == SeqsUpTo(S, n - 1)
         IN  shorter \cup {Append(q, x) : q \in {r \in shorter : Len(r) = n - 1}, x \in S}

\* what open() + email.message_from_bytes give: the parts in walk order, or an
\* unreadable file
Containers ==
    {[readable |-> TRUE, parts |-> ps] : ps \in SeqsUpTo(Parts, MaxParts)}
    \cup {[readable |-> FALSE, parts |-> <<>>]}

\* the text of the filename after lines 52-57; an encoded word of an unknown
\* charset raises LookupError in bytes.decode
decode_raises(fn) == fn.form = "encoded" /\ fn.charset \notin KnownCharsets
decoded(fn) == fn.text

\* filename.endswith('.xlsx') or filename.endswith('.xls')
is_excel(filename) == filename.ext \in {".xlsx", ".xls"}

\* open(output_path / filename, 'wb') raises FileNotFoundError when the name
\* leads into a subdirectory: the staging directory holds none
open_raises(filename) == filename.dir = "sub"

\* output_path / filename stays in the staging directory unless the name
\* climbs out of it with ".."
is_inside(filename) == filename.dir = ""

\* one iteration of "for part in msg.walk()": part number i, the staging
\* directory, the files written outside it, and the list so far; err is a
\* raised exception
walk_step(part, i, dir, out, files) ==
    LET same == [err |-> FALSE, dir |-> dir, out |-> out, files |-> files]
        stop == [err |-> TRUE, dir |-> dir, out |-> out, files |-> files]
        filename == decoded(part.fname)
        payload == [bytes |-> part.payload, part |-> i]
    IN  IF part.disp # "attachment" THEN same
        ELSE IF part.fname.form = "none" THEN same
        ELSE IF decode_raises(part.fname) THEN stop
        ELSE IF ~is_excel(filename) THEN same
        ELSE IF open_raises(filename) THEN stop
        ELSE [err |-> FALSE,
              dir |-> IF is_inside(filename) THEN WriteFile(dir, filename, payload)
                      ELSE dir,
              out |-> IF is_inside(filename) THEN out
                      ELSE WriteFile(out, filename, payload),
              files |-> Append(files, [path |-> filename, part |-> i])]

\* the whole loop from part i on (the stand-alone extractor)
RECURSIVE walk_from(_, _, _, _, _)
walk_from(parts, i, dir, out, files) ==
    IF i > Len(parts) THEN [err |-> FALSE, dir |-> dir, out |-> out, files |-> files]
    ELSE LET r == walk_step(parts[i], i, dir, out, files)
         IN  IF r.err THEN r ELSE walk_from(parts, i + 1, r.dir, r.out, r.files)

\* ------------------------------------------------------------------- state
VARIABLES
    script,                \* which program runs: "batch", "tools" or "unique"
    pc,                    \* position in it
    csv_dir,               \* csv/: the batch processor's output directory
    cwd_files,             \* the sales_*.csv files of the working directory
    extracted_attachments, \* the stand-alone extractor's output_dir
    temp_processing,       \* temp_processing/: eml stem -> its file_temp_dir
    stray,                 \* attachment files written outside the staging directory
    eml_files,             \* main: how many .eml files the glob found
    eml_i,                 \* main: the one being processed (1-based)
    cur,                   \* process_eml_file: the container read
    walk_i,                \* extract_excel_from_eml: the next part of the walk
    excel_files,           \* the list extract_excel_from_eml builds and returns
    excel_i,               \* process_eml_file: the next entry of excel_files
    processed_files,       \* process_eml_file: the CSV names written
    ret,                   \* process_eml_file: return value and its cause
    successful, failed,    \* main: the two counters
    results,               \* what process_eml_file has returned so far, with the cause
    trail,                 \* per part of cur, the states it went through
    exit                   \* how main ended: "", "no_eml", "summary", "crash"

vars == <<script, pc, csv_dir, cwd_files, extracted_attachments, temp_processing,
          stray, eml_files, eml_i, cur, walk_i, excel_files, excel_i, processed_files,
          ret, successful, failed, results, trail, exit>>

NoContainer == [readable |-> FALSE, parts |-> <<>>]
NoRet == [value |-> FALSE, cause |-> ""]

NameWeek == SalesName(20240101, 20240107)
NameFeb == SalesName(20240201, 20240229)
\* a CSV written by an earlier run
OldCsv == Table(Date(1, 1, 2024), Date(7, 1, 2024), 0)

DirOf(names) == [n \in names |-> OldCsv]

\* output directories the batch processor may start with
PreCsv == {DirOf({}), DirOf({NameWeek})}

Locals ==
    /\ eml_files = 0 /\ eml_i = 0 /\ cur = NoContainer /\ walk_i = 0
    /\ excel_files = <<>> /\ excel_i = 0 /\ processed_files = <<>>
    /\ ret = NoRet /\ successful = 0 /\ failed = 0 /\ results = {}
    /\ trail = <<>> /\ exit = ""
    /\ temp_processing = EmptyDir /\ stray = EmptyDir

InitBatch ==
    /\ script = "batch" /\ pc = "start"
    /\ csv_dir \in PreCsv
    /\ cwd_files = EmptyDir /\ extracted_attachments = EmptyDir
    /\ Locals

InitTools ==
    /\ script = "tools" /\ pc = "shell"
    /\ csv_dir = EmptyDir
    /\ cwd_files \in {DirOf({}), DirOf({NameWeek})}
    /\ extracted_attachments = EmptyDir
    /\ Locals

Init == InitBatch \/ InitTools

\* --------------------------------------------------- batch_process_emails.py
\* main, lines 179-213: the directories and the glob
main_start ==
    /\ script = "batch" /\ pc = "start"
    /\ \E n \in 0 .. MaxEml :
        /\ eml_files' = n
        /\ IF n = 0 THEN pc' = "exit" /\ exit' = "no_eml" /\ eml_i' = eml_i
           ELSE pc' = "loop" /\ exit' = exit /\ eml_i' = 1
    /\ successful' = 0 /\ failed' = 0
    /\ UNCHANGED <<script, csv_dir, cwd_files, extracted_attachments, temp_processing,
                   stray, cur, walk_i, excel_files, excel_i, processed_files, ret,
                   results, trail>>

\* main lines 215-216 and process_eml_file lines 119-131, extract_excel_from_eml
\* lines 37-45: the staging directory is made outside the try, the file is read
\* inside it
process_eml_begin ==
    /\ script = "batch" /\ pc = "loop" /\ eml_i <= eml_files
    /\ \E c \in Containers, mkdir_ok \in BOOLEAN :
        IF ~mkdir_ok
        THEN \* file_temp_dir.mkdir raises: nothing catches it, main dies
             /\ pc' = "exit" /\ exit' = "crash"
             /\ UNCHANGED <<temp_processing, cur, walk_i, excel_files, ret, trail>>
        ELSE /\ temp_processing' =
                    IF eml_i \in DOMAIN temp_processing THEN temp_processing
                    ELSE WriteFile(temp_processing, eml_i, EmptyDir)
             /\ cur' = c
             /\ trail' = [i \in 1 .. Len(c.parts) |-> <<"Discovered">>]
             /\ excel_files' = <<>>
             /\ exit' = exit
             /\ IF c.readable
                THEN pc' = "walk" /\ walk_i' = 1 /\ ret' = NoRet
                ELSE /\ pc' = "finally" /\ walk_i' = walk_i
                     /\ ret' = [value |-> FALSE, cause |-> "unreadable"]
    /\ UNCHANGED <<script, csv_dir, cwd_files, extracted_attachments, stray, eml_files,
                   eml_i, excel_i, processed_files, successful, failed, results>>

Step(t, i, st) == [t EXCEPT ![i] = Append(@, st)]

\* extract_excel_from_eml lines 47-65: one part of the walk; an exception leaves
\* the function, and process_eml_file's outer except returns False
walk ==
    /\ script = "batch" /\ pc = "walk" /\ walk_i <= Len(cur.parts)
    /\ LET r == walk_step(cur.parts[walk_i], walk_i, temp_processing[eml_i], stray,
                          excel_files)
       IN  /\ temp_processing' = [temp_processing EXCEPT ![eml_i] = r.dir]
           /\ stray' = r.out
           /\ IF r.err
              THEN /\ excel_files' = <<>>
                   /\ pc' = "finally" /\ walk_i' = walk_i
                   /\ ret' = [value |-> FALSE, cause |-> "extract_error"]
                   /\ trail' = Step(trail, walk_i, "Rejected")
              ELSE /\ excel_files' = r.files
                   /\ pc' = pc /\ walk_i' = walk_i + 1 /\ ret' = ret
                   /\ trail' = Step(trail, walk_i,
                                    IF Len(r.files) > Len(excel_files) THEN "Extracted"
                                    ELSE "Rejected")
    /\ UNCHANGED <<script, csv_dir, cwd_files, extracted_attachments, eml_files, eml_i,
                   cur, excel_i, processed_files, successful, failed, results, exit>>

\* extract_excel_from_eml line 67 and process_eml_file lines 133-137
walk_end ==
    /\ script = "batch" /\ pc = "walk" /\ walk_i > Len(cur.parts)
    /\ IF excel_files = <<>>
       THEN /\ pc' = "finally" /\ ret' = [value |-> FALSE, cause |-> "empty"]
            /\ UNCHANGED <<excel_i, processed_files>>
       ELSE /\ pc' = "excel" /\ excel_i' = 1 /\ processed_files' = <<>>
            /\ ret' = ret
    /\ UNCHANGED <<script, csv_dir, cwd_files, extracted_attachments, temp_processing,
                   stray, eml_files, eml_i, cur, walk_i, excel_files, successful, failed,
                   results, trail, exit>>

\* the file a path of excel_files names, as it is on disk now
StagedFile(path) ==
    IF is_inside(path) THEN temp_processing[eml_i][path] ELSE stray[path]

\* process_eml_file lines 140-162: one staged file; the inner except swallows
\* whatever process_sales_excel, get_unique_filename or to_csv raises
process_excel ==
    /\ script = "batch" /\ pc = "excel" /\ excel_i <= Len(excel_files)
    /\ LET excel_file == excel_files[excel_i].path
           staged == StagedFile(excel_file)
           r == process_sales_excel(excel_file, staged.bytes)
           unique_csv_path == get_unique_filename(csv_dir, r.output_filename)
       IN  \E to_csv_ok \in BOOLEAN :
            IF ~r.ok
            THEN /\ to_csv_ok
                 /\ trail' = Step(trail, staged.part, "Rejected")
                 /\ UNCHANGED <<csv_dir, processed_files>>
            ELSE IF to_csv_ok
            THEN /\ csv_dir' = WriteFile(csv_dir, unique_csv_path, r.df)
                 /\ processed_files' = Append(processed_files, unique_csv_path)
                 /\ trail' = Step(Step(trail, staged.part, "Normalized"),
                                  staged.part, "Written")
            ELSE /\ trail' = Step(Step(trail, staged.part, "Normalized"),
                                  staged.part, "Rejected")
                 /\ UNCHANGED <<csv_dir, processed_files>>
    /\ excel_i' = excel_i + 1
    /\ UNCHANGED <<script, pc, cwd_files, extracted_attachments, temp_processing, stray,
                   eml_files, eml_i, cur, walk_i, excel_files, ret, successful, failed,
                   results, exit>>

\* process_eml_file line 164
process_end ==
    /\ script = "batch" /\ pc = "excel" /\ excel_i > Len(excel_files)
    /\ pc' = "finally"
    /\ ret' = [value |-> Len(processed_files) > 0, cause |-> "processed"]
    /\ UNCHANGED <<script, csv_dir, cwd_files, extracted_attachments, temp_processing,
                   stray, eml_files, eml_i, cur, walk_i, excel_files, excel_i,
                   processed_files, successful, failed, results, trail, exit>>

RemoveFile(dir, name) == [n \in DOMAIN dir \ {name} |-> dir[n]]

\* process_eml_file lines 170-177 (shutil.rmtree(file_temp_dir), taken to
\* succeed) and main lines 216-219; the locals of the call are gone
finally ==
    /\ script = "batch" /\ pc = "finally"
    /\ temp_processing' = RemoveFile(temp_processing, eml_i)
    /\ IF ret.value
       THEN successful' = successful + 1 /\ failed' = failed
       ELSE failed' = failed + 1 /\ successful' = successful
    /\ results' = results \cup {ret}
    /\ eml_i' = eml_i + 1
    /\ pc' = "loop"
    /\ cur' = NoContainer /\ walk_i' = 0 /\ excel_files' = <<>> /\ excel_i' = 0
    /\ processed_files' = <<>> /\ ret' = NoRet /\ trail' = <<>>
    /\ UNCHANGED <<script, csv_dir, cwd_files, extracted_attachments, stray, eml_files,
                   exit>>

\* main lines 221-239: shutil.rmtree(temp_dir) and the summary
summary ==
    /\ script = "batch" /\ pc = "loop" /\ eml_i > eml_files
    /\ temp_processing' = EmptyDir
    /\ pc' = "exit" /\ exit' = "summary"
    /\ UNCHANGED <<script, csv_dir, cwd_files, extracted_attachments, stray, eml_files,
                   eml_i, cur, walk_i, excel_files, excel_i, processed_files, ret,
                   successful, failed, results, trail>>

\* ------------------------------------------------ extract_excel_from_email.py
\* extract_excel_from_eml(eml, "extracted_attachments"), lines 8-39: the files
\* are written to output_dir and stay there
standalone_extract ==
    /\ script = "tools" /\ pc = "shell"
    /\ \E c \in Containers :
        LET r == walk_from(c.parts, 1, extracted_attachments, stray, <<>>)
        IN  /\ extracted_attachments' = IF c.readable THEN r.dir ELSE extracted_attachments
            /\ stray' = IF c.readable THEN r.out ELSE stray
    /\ UNCHANGED <<script, pc, csv_dir, cwd_files, temp_processing, eml_files, eml_i,
                   cur, walk_i, excel_files, excel_i, processed_files, ret, successful,
                   failed, results, trail, exit>>

\* ----------------------------------------------------- process_excel_sales.py
\* main, lines 74-97, with process_sales_excel lines 9-72: the CSV is written
\* to the derived name in the working directory
standalone_sales ==
    /\ script = "tools" /\ pc = "shell"
    /\ AheadXlsx \in DOMAIN extracted_attachments
    /\ LET r == process_sales_excel(AheadXlsx, extracted_attachments[AheadXlsx].bytes)
       IN  IF r.ok
           THEN cwd_files' = WriteFile(cwd_files, r.output_filename, r.df)
           ELSE cwd_files' = cwd_files
    /\ UNCHANGED <<script, pc, csv_dir, extracted_attachments, temp_processing, stray,
                   eml_files, eml_i, cur, walk_i, excel_files, excel_i, processed_files,
                   ret, successful, failed, results, trail, exit>>

Next ==
    \/ main_start
    \/ process_eml_begin
    \/ walk
    \/ walk_end
    \/ process_excel
    \/ process_end
    \/ finally
    \/ summary
    \/ standalone_extract
    \/ standalone_sales

Spec == Init /\ [][Next]_vars

\* ------------------------------------------ get_unique_filename on its own
\* every directory over two families of names
UniqueNames ==
    {NameWeek, Suffixed(NameWeek, 1), Suffixed(NameWeek, 2), NameFeb, Suffixed(NameFeb, 1)}

InitUnique ==
    /\ script = "unique" /\ pc = "write"
    /\ csv_dir \in {DirOf(names) : names \in SUBSET UniqueNames}
    /\ cwd_files = EmptyDir /\ extracted_attachments = EmptyDir
    /\ Locals

\* process_eml_file lines 147-159 for a derived name: the path in csv/, the
\* unique name, the write, the append
write_unique ==
    /\ script = "unique" /\ pc = "write"
    /\ Len(processed_files) < MaxWrites
    /\ \E csv_filename \in {NameWeek, NameFeb} :
        LET unique_csv_path == get_unique_filename(csv_dir, csv_filename)
        IN  /\ csv_dir' = WriteFile(csv_dir, unique_csv_path,
                                    Table(NoDate, NoDate, Len(processed_files) + 1))
            /\ processed_files' = Append(processed_files, unique_csv_path)
    /\ UNCHANGED <<script, pc, cwd_files, extracted_attachments, temp_processing, stray,
                   eml_files, eml_i, cur, walk_i, excel_files, excel_i, ret, successful,
                   failed, results, trail, exit>>

NextUnique == write_unique

SpecUnique == InitUnique /\ [][NextUnique]_vars

\* ================================================================== claims
Range(q) == {q[i] : i \in DOMAIN q}

\* the names of the family of base: base itself and base_1, base_2, ...
Family(base) == {base} \cup {Suffixed(base, n) : n \in 1 .. (MaxWrites + 3)}

\* the written names of one family, in the order of the writes
RECURSIVE Only(_, _)
Only(q, S) ==
    IF q = <<>> THEN <<>>
    ELSE IF Head(q) \in S THEN <<Head(q)>> \o Only(Tail(q), S) ELSE Only(Tail(q), S)

\* base, base_1, ..., base_(k-1)
Numbered(base, k) == [i \in 1 .. k |-> IF i = 1 THEN base ELSE Suffixed(base, i - 1)]

\* what the directory held before the writes of this run
Before == DOMAIN csv_dir \ Range(processed_files)

\* the spreadsheet attachments of the claims: disposition "attachment", a
\* filename that decodes, a spreadsheet extension
Qualifies(p) ==
    /\ p.disp = "attachment"
    /\ p.fname.form # "none"
    /\ ~(p.fname.form = "encoded" /\ p.fname.charset \notin KnownCharsets)
    /\ p.fname.text.ext \in {".xlsx", ".xls"}

\* its title cell holds no date range, or a date that is no calendar date
FailingWorkbooks == {w \in Workbooks : TitleOf(w) \in {TitleQ1, TitleNoLeap}}

IsPrefix(a, b) == Len(a) <= Len(b) /\ SubSeq(b, 1, Len(a)) = a

\* no to_csv of this container raised
NoWriteError ==
    \A j \in DOMAIN trail : \A k \in 1 .. (Len(trail[j]) - 1) :
        ~(trail[j][k] = "Normalized" /\ trail[j][k + 1] = "Rejected")

\* C1: the output directory is append-only: in every step, each file of the
\* output directory (csv/ for the batch processor, the working directory for
\* process_excel_sales.py) is still there afterwards with the same content.
C1_AppendOnly ==
    [][/\ \A n \in DOMAIN csv_dir : n \in DOMAIN csv_dir' /\ csv_dir'[n] = csv_dir[n]
       /\ \A n \in DOMAIN cwd_files :
            n \in DOMAIN cwd_files' /\ cwd_files'[n] = cwd_files[n]]_vars

\* the minimal-free-suffix half of C2, for the name a write step used: the
\* name written is the derived name when that was free, else <stem>_<n> with
\* n >= 1 the smallest number whose name was free
MinimalFree(dir, base, r) ==
    /\ r \notin DOMAIN dir
    /\ base \notin DOMAIN dir => r = base
    /\ base \in DOMAIN dir =>
        \E n \in 1 .. (MaxWrites + 3) :
            /\ r = Suffixed(base, n)
            /\ \A m \in 1 .. (n - 1) : Suffixed(base, m) \in DOMAIN dir

C2_StepMinimal ==
    processed_files' # processed_files =>
        \E base \in {NameWeek, NameFeb} :
            /\ processed_files'[Len(processed_files')] \in Family(base)
            /\ MinimalFree(csv_dir, base, processed_files'[Len(processed_files')])

\* C2 as stated: get_unique_filename gives the minimal free name, and k+1
\* writes of one derived name into a directory that lacked that name give
\* base, base_1, ..., base_k in that order.
C2_AsStated ==
    /\ [][C2_StepMinimal]_vars
    /\ [](\A base \in {NameWeek, NameFeb} :
            base \notin Before =>
                Only(processed_files, Family(base))
                    = Numbered(base, Len(Only(processed_files, Family(base)))))

\* C2 amended: get_unique_filename gives the minimal free name, and k+1 writes
\* of one derived name into a directory that held neither that name nor any
\* of its _n variants give base, base_1, ..., base_k in that order.
C2_Amended ==
    /\ [][C2_StepMinimal]_vars
    /\ [](\A base \in {NameWeek, NameFeb} :
            Family(base) \cap Before = {} =>
                Only(processed_files, Family(base))
                    = Numbered(base, Len(Only(processed_files, Family(base)))))

\* C2 witness: three writes of one name into a directory that held none of its
\* family produced base, base_1, base_2, with another family in between
C2_Witness ==
    /\ script = "unique"
    /\ Family(NameWeek) \cap Before = {}
    /\ Only(processed_files, Family(NameWeek))
        = <<NameWeek, Suffixed(NameWeek, 1), Suffixed(NameWeek, 2)>>
    /\ Len(processed_files) = 4

\* C3: when the processing of a container has finished, its staging directory
\* and the attachments staged in it are gone: no finished container of the
\* batch has a directory under temp_processing/, and nothing the stand-alone
\* extractor staged is left in its output_dir.
C3_NoResidue ==
    /\ (script = "batch" /\ pc \in {"loop", "exit"}) =>
            /\ \A e \in DOMAIN temp_processing : e >= eml_i
            /\ stray = EmptyDir
    /\ script = "tools" => extracted_attachments = EmptyDir /\ stray = EmptyDir

\* C4: a part whose encoded filename cannot be decoded is skipped alone: the
\* extraction of its container does not fail, and every other spreadsheet
\* attachment of the container is in the returned list.
C4_DecodeSkip ==
    (/\ script = "batch" /\ pc \in {"excel", "finally"}
     /\ cur.readable
     /\ \E i \in DOMAIN cur.parts :
            cur.parts[i].disp = "attachment" /\ decode_raises(cur.parts[i].fname)
     /\ \A i \in DOMAIN cur.parts : cur.parts[i].fname.text.dir # "sub")
    => /\ ret.cause # "extract_error"
       /\ \A j \in DOMAIN cur.parts :
            Qualifies(cur.parts[j]) => \E k \in DOMAIN excel_files : excel_files[k].part = j

\* C5: a failure in one container or attachment stops nothing else: main never
\* dies, its summary counts every container once, and when a container is done
\* every spreadsheet attachment of it whose own extraction could not fail has
\* been handed to the normalizer.
C5_Isolation ==
    /\ exit # "crash"
    /\ exit = "summary" => successful + failed = eml_files
    /\ (script = "batch" /\ pc = "finally" /\ cur.readable) =>
        \A j \in DOMAIN cur.parts :
            (Qualifies(cur.parts[j]) /\ cur.parts[j].fname.text.dir # "sub")
                => \E k \in DOMAIN trail[j] : trail[j][k] \in {"Normalized", "Rejected"}

\* C6: a container without spreadsheet attachments makes process_eml_file
\* report a failure with no CSV written, and what it returns for such a
\* container differs from what it returns for an unreadable one.
C6_EmptyIsDistinct ==
    /\ (script = "batch" /\ pc = "finally" /\ ret.cause = "empty") =>
            ~ret.value /\ processed_files = <<>>
    /\ \A r, e \in results :
            (r.cause = "empty" /\ e.cause = "unreadable") => r.value # e.value

\* C7: when the workbook being normalized has a title cell without a date
\* range, or with a date that is no calendar date, the step that processes it
\* leaves the output directory as it was: no file is added, none changes.
C7_NoOutputOnFailure ==
    [][((\/ /\ script = "batch" /\ pc = "excel" /\ excel_i <= Len(excel_files)
            /\ StagedFile(excel_files[excel_i].path).bytes \in FailingWorkbooks
         \/ /\ script = "tools" /\ AheadXlsx \in DOMAIN extracted_attachments
            /\ extracted_attachments[AheadXlsx].bytes \in FailingWorkbooks)
        => (csv_dir' = csv_dir /\ cwd_files' = cwd_files
            /\ processed_files' = processed_files))]_vars

\* C7 witness: the batch processor has gone past a staged workbook whose title
\* fails, in a run whose output directory already held files
C7_Witness ==
    /\ script = "batch" /\ pc = "excel" /\ excel_i = 2
    /\ StagedFile(excel_files[1].path).bytes \in FailingWorkbooks
    /\ excel_files[1].path.ext = ".xlsx"
    /\ trail[excel_files[1].part] = <<"Discovered", "Extracted", "Rejected">>
    /\ DOMAIN csv_dir = {NameWeek, Suffixed(NameWeek, 1)}

\* C8: when a container has been processed without a write error, it has one
\* new CSV per spreadsheet attachment whose own workbook normalizes, and each
\* such attachment's workbook is the body of one of the new files.
C8_OnePerAttachment ==
    (script = "batch" /\ pc = "finally" /\ ret.cause = "processed" /\ NoWriteError) =>
        LET good == {j \in DOMAIN cur.parts :
                        /\ Qualifies(cur.parts[j])
                        /\ process_sales_excel(cur.parts[j].fname.text,
                                               cur.parts[j].payload).ok}
        IN  /\ Len(processed_files) = Cardinality(good)
            /\ \A j \in good : \E k \in DOMAIN processed_files :
                    csv_dir[processed_files[k]].body = cur.parts[j].payload

\* C9: when the extraction of a readable container is over, the returned list
\* has exactly one entry for each part that has disposition "attachment", a
\* filename, and a decoded name ending in .xlsx or .xls, and none for others.
C9_ExactlyQualifying ==
    (script = "batch" /\ pc \in {"excel", "finally"} /\ cur.readable) =>
        /\ \A j \in DOMAIN cur.parts :
            Qualifies(cur.parts[j]) <=> \E k \in DOMAIN excel_files : excel_files[k].part = j
        /\ \A k, l \in DOMAIN excel_files :
            excel_files[k].part = excel_files[l].part => k = l

\* C10: in a run without a write error every attachment's states are a prefix
\* of Discovered, Extracted, Normalized, Written or of Discovered, Extracted,
\* Rejected or of Discovered, Rejected: nothing is entered twice, nothing is
\* normalized or written twice.
C10_Paths ==
    (script = "batch" /\ NoWriteError) =>
        \A j \in DOMAIN trail :
            \/ IsPrefix(trail[j], <<"Discovered", "Extracted", "Normalized", "Written">>)
            \/ IsPrefix(trail[j], <<"Discovered", "Extracted", "Rejected">>)
            \/ IsPrefix(trail[j], <<"Discovered", "Rejected">>)

====
